---- MODULE Spec2Model ----
(***************************************************************************)
(* Model of the training / forecasting core of btc-prediction-lstm:        *)
(*   - ModelTrainer.create_windowed_data   (src/src/train.py)              *)
(*   - main's split construction, fold loop and best-model selection       *)
(*     (src/src/train.py)                                                  *)
(*   - predict_next_days                   (src/predict.py)                *)
(*   - train_model and its callbacks       (src/src/train.py)              *)
(* The specifications share the variables:                                 *)
(*   SpecWindow  - create_windowed_data applied to small arbitrary matrices*)
(*   Spec        - one run of train.main                                   *)
(*   SpecPredict - one call of predict_next_days                           *)
(*   SpecFit     - one call of train_model, epoch by epoch                 *)
(*   SpecFeatures - the data scripts: data_preparation.main and            *)
(*                 feature_engineering.main, statement by statement, then  *)
(*                 train.main and the construction of ModelPredictor       *)
(*   SpecInverse - one call of ModelPredictor.inverse_transform_predictions*)
(***************************************************************************)
EXTENDS Integers, Sequences, FiniteSets, TLC

VARIABLES
    pc,                 \* position of the process the specification runs
    df,                 \* the feature matrix: a sequence of rows, each a sequence of NumCols values
    steps,              \* window length (PARAMETERS['train_steps'] / timesteps)
    target_index,       \* 0-based position of the target column (df.columns.get_loc)
    x, y,               \* trainer.x, trainer.y
    n_folds,            \* parameters['n_folds']
    splits,             \* the (train_index, test_index) pairs main iterates over
    fold,               \* i of "for i, (train_index, test_index) in enumerate(splits)"
    worker_kind,        \* "none" | "attr" | "method": what worker.is_running is
    worker_running,     \* what the run-controller's "still running" query answers
    best_val_loss,      \* main's best_val_loss
    best_model,         \* main's best_model: None or the model of a fold
    model,              \* main's model (the one train_model returned last)
    current_val_loss,   \* main's current_val_loss = min(history.history['val_loss'])
    metrics_list,       \* main's metrics_list (one entry per evaluated fold)
    files,              \* the model directory: path -> model stored there
    completed,          \* ghost: per fold that finished training, its monitored loss and model
    failed,             \* ghost: the folds whose training raised
    error,              \* what the process raised ("none" while it has not)
    seed_kind,          \* predict: type of initial_data, "ndarray" | "DataFrame"
    input_data,         \* predict: input_data, a sequence of rows
    future_predictions, \* predict: future_predictions
    days,               \* predict: days
    const_pred,         \* predict: the scaled value the regressor always predicts
    scaler,             \* predict: the fitted single-column MinMaxScaler [dmin, dmax]
    iter,               \* predict: number of loop iterations started
    fit,                \* train_model: parameters and progress of model.fit
    checkpoint,         \* train_model: the ModelCheckpoint callback
    early_stopping,     \* train_model: the EarlyStopping callback
    model_file,         \* train_model: the weights in the fold's model file
    entry,              \* features: the script the run starts with
    input_df,           \* features: the DataFrame the running script was given
    frame,              \* features: df, the DataFrame being processed
    fitted,             \* features: the scalers fitted so far, by role
    store,              \* the files on disk: path -> content
    pipe_error,         \* features: what the running script raised ("none" while it has not)
    predictor,          \* predict: the ModelPredictor (its fields set so far)
    call_depth,         \* predict: the frames of load_model on the call stack
    predictions,        \* predict: the scaled predictions given to inverse_transform_predictions
    inverse             \* predict: what inverse_transform_predictions returned

vars == <<pc, df, steps, target_index, x, y, n_folds, splits, fold, worker_kind,
          worker_running, best_val_loss, best_model, model, current_val_loss, metrics_list,
          files, completed, failed, error, seed_kind, input_data,
          future_predictions, days, const_pred, scaler, iter,
          fit, checkpoint, early_stopping, model_file,
          entry, input_df, frame, fitted, store, pipe_error,
          predictor, call_depth, predictions, inverse>>

trainVars == <<n_folds, splits, fold, worker_kind, worker_running, best_val_loss,
               best_model, model, current_val_loss, metrics_list, files, completed, failed, error>>

predictVars == <<seed_kind, input_data, future_predictions, days, const_pred, scaler, iter>>

fitVars == <<fit, checkpoint, early_stopping, model_file>>

featureVars == <<entry, input_df, frame, fitted, store, pipe_error>>

predictorVars == <<predictor, call_depth, predictions, inverse>>

auxVars == <<fitVars, featureVars, predictorVars>>

windowVars == <<df, steps, target_index, x, y>>

(***************************************************************************)
(* Bounds of the model.                                                    *)
(***************************************************************************)
MaxRows == 4        \* SpecWindow: matrices have at most MaxRows rows
MaxSteps == 2       \* window lengths are 1..MaxSteps
MaxTrainRows == 7   \* Spec: the scaled dataset has at most MaxTrainRows rows (or 100 windows)
MaxFolds == 3       \* Spec: parameters['n_folds'] is 0..MaxFolds
MaxLoss == 1        \* Spec: finite validation losses are 0..MaxLoss
MaxEpochs == 2      \* Spec: a fold's history holds 1..MaxEpochs epochs
MaxDays == 2        \* SpecPredict: the horizon (days) is 0..MaxDays
MaxPatience == 2    \* SpecFit: parameters['early_stopping_patience'] is 0..MaxPatience
MaxPriceRows == 202 \* SpecFeatures: the price history has 0..MaxPriceRows rows
RecursionLimit == 3 \* SpecFeatures: the frames the interpreter allows on the call stack
MaxPredictions == 2 \* SpecInverse: the model returned 0..MaxPredictions predictions

\* the columns of the feature matrix, in their fixed order; the target is Close
Columns == <<"Open", "Close", "Volume">>
NumCols == Len(Columns)
CellValues == {0, 1}

Max(a, b) == IF a >= b THEN a ELSE b
Min(a, b) == IF a <= b THEN a ELSE b

\* Python's s[lo:hi] for a sequence s and 0 <= lo, 0 <= hi (numpy row slice)
Slice(s, lo, hi) == SubSeq(s, Min(lo, Len(s)) + 1, Min(hi, Len(s)))

\* np.arange(lo, hi) as a sequence of 0-based indices
Arange(lo, hi) == [k \in 1..Max(0, hi - lo) |-> lo + k - 1]

(***************************************************************************)
(* Python floats, as far as main compares them: a finite value, +inf       *)
(* (np.inf) or nan.  a < b is False whenever a or b is nan.                *)
(***************************************************************************)
Fin(v) == [kind |-> "fin", v |-> v]
PosInf == [kind |-> "inf", v |-> 0]
NaN == [kind |-> "nan", v |-> 0]

LossVals == {Fin(v) : v \in 0..MaxLoss} \cup {PosInf, NaN}

FloatLt(a, b) ==
    CASE a.kind = "nan" \/ b.kind = "nan" -> FALSE
      [] a.kind = "inf" -> FALSE
      [] b.kind = "inf" -> TRUE
      [] OTHER -> a.v < b.v

FloatLe(a, b) ==
    CASE a.kind = "nan" \/ b.kind = "nan" -> FALSE
      [] b.kind = "inf" -> TRUE
      [] a.kind = "inf" -> FALSE
      [] OTHER -> a.v <= b.v

\* Python's min(list): the first item, replaced by each later item that is < it
RECURSIVE PyMinFrom(_, _, _)
PyMinFrom(list, k, m) ==
    IF k > Len(list) THEN m
    ELSE PyMinFrom(list, k + 1, IF FloatLt(list[k], m) THEN list[k] ELSE m)

PyMin(list) == PyMinFrom(list, 2, list[1])

\* the val_loss histories a fold can report
Histories == UNION {[1..n -> LossVals] : n \in 1..MaxEpochs}

(***************************************************************************)
(* Models and the files of the model directory.                            *)
(***************************************************************************)
NoModel == [fold |-> -1]            \* Python's None
FoldModel(i) == [fold |-> i]        \* the model train_model built for fold i

Ticker == "BTC-USD"
DigitStr == <<"0", "1", "2", "3", "4", "5", "6", "7", "8", "9">>
IntStr(i) == DigitStr[i + 1]

\* mutant: the fold index is left out of the file name
FoldPath_shared(ticker, i) == <<"model_", ticker, "_fold", ".keras">>

\* f"model_{ticker}_fold_{fold_index}.keras" and f"model_{ticker}_best.keras"
FoldPath(ticker, i) == <<"model_", ticker, "_fold_", IntStr(i), ".keras">>
BestPath(ticker) == <<"model_", ticker, "_best", ".keras">>

\* models/callbacks.py: f"{ticker}_fold_{fold_index}_{monitor}.keras"
Monitor == "val_loss"
CallbackPath(ticker, i, monitor) == <<ticker, "_fold_", IntStr(i), "_", monitor, ".keras">>

Put(fs, path, m) == [p \in DOMAIN fs \cup {path} |-> IF p = path THEN m ELSE fs[p]]

(***************************************************************************)
(* The splits of main.                                                     *)
(* sklearn's TimeSeriesSplit(n_splits).split(X), gap = 0, test_size None:  *)
(*   n_folds = n_splits + 1; test_size = n_samples // n_folds              *)
(*   ValueError if n_folds > n_samples                                     *)
(*   ValueError if n_samples - test_size * n_splits <= 0                   *)
(*   for test_start in range(n_samples - n_splits*test_size, n_samples,    *)
(*                           test_size):                                   *)
(*       yield indices[:test_start], indices[test_start:test_start+size]   *)
(***************************************************************************)
\* mutant: the train range runs one index into the validation block
TimeSeriesSplit_leak(n_samples, n_splits) ==
    LET test_size == n_samples \div (n_splits + 1)
        first == n_samples - n_splits * test_size
    IN IF n_splits + 1 > n_samples \/ n_samples - test_size * n_splits <= 0
       THEN [ok |-> FALSE, splits |-> <<>>]
       ELSE [ok |-> TRUE,
             splits |-> [k \in 1..n_splits |->
                 LET test_start == first + (k - 1) * test_size
                 IN [train |-> Arange(0, test_start + 1),
                     test |-> Arange(test_start, test_start + test_size)]]]

\* mutant: each validation block is one index too long
TimeSeriesSplit_overlap(n_samples, n_splits) ==
    LET test_size == n_samples \div (n_splits + 1)
        first == n_samples - n_splits * test_size
    IN IF n_splits + 1 > n_samples \/ n_samples - test_size * n_splits <= 0
       THEN [ok |-> FALSE, splits |-> <<>>]
       ELSE [ok |-> TRUE,
             splits |-> [k \in 1..n_splits |->
                 LET test_start == first + (k - 1) * test_size
                 IN [train |-> Arange(0, test_start),
                     test |-> Arange(test_start,
                                     Min(n_samples, test_start + test_size + 1))]]]

TimeSeriesSplit(n_samples, n_splits) ==
    LET test_size == n_samples \div (n_splits + 1)
        first == n_samples - n_splits * test_size
    IN IF n_splits + 1 > n_samples \/ n_samples - test_size * n_splits <= 0
       THEN [ok |-> FALSE, splits |-> <<>>]
       ELSE [ok |-> TRUE,
             splits |-> [k \in 1..n_splits |->
                 LET test_start == first + (k - 1) * test_size
                 IN [train |-> Arange(0, test_start),
                     test |-> Arange(test_start, test_start + test_size)]]]

\* mutant: the split point is taken at 20% instead of 80%
HoldoutSplit_swapped(n_samples) ==
    LET split_index == (n_samples * 2) \div 10
    IN <<[train |-> Arange(0, split_index), test |-> Arange(split_index, n_samples)]>>

\* split_index = int(len(trainer.x) * 0.8): the double 0.8 lies just above 4/5
\* and the product is rounded to the nearest double, so the truncation is
\* floor(8 * n / 10) for every n a dataset can have
HoldoutSplit(n_samples) ==
    LET split_index == (n_samples * 8) \div 10
    IN <<[train |-> Arange(0, split_index), test |-> Arange(split_index, n_samples)]>>

(***************************************************************************)
(* ModelTrainer.create_windowed_data: the loop                             *)
(*     for i in range(steps, len(data)):                                   *)
(*         x.append(data[i - steps:i]); y.append(data[i, target_index])    *)
(* The k-th item of x and of y is the one appended for the k-th i of the   *)
(* range.  data[i] (0-based) is data[i + 1] here.                          *)
(***************************************************************************)
\* mutant: the window is taken one row late, so it contains its own label row
create_windowed_data_leak(data, st, target) ==
    LET range == Arange(st, Len(data))
    IN [x |-> [k \in 1..Len(range) |-> Slice(data, range[k] - st + 1, range[k] + 1)],
        y |-> [k \in 1..Len(range) |-> data[range[k] + 1][target + 1]]]

create_windowed_data(data, st, target) ==
    LET range == Arange(st, Len(data))
    IN [x |-> [k \in 1..Len(range) |-> Slice(data, range[k] - st, range[k])],
        y |-> [k \in 1..Len(range) |-> data[range[k] + 1][target + 1]]]

(***************************************************************************)
(* SpecWindow: create_windowed_data on every matrix of at most MaxRows     *)
(* rows over CellValues, every window length and every target column.      *)
(***************************************************************************)
Rows == [1..NumCols -> CellValues]

Matrices == UNION {[1..n -> Rows] : n \in 0..MaxRows}

IdleTrain ==
    /\ n_folds = 0 /\ splits = <<>> /\ fold = 0
    /\ worker_kind = "none" /\ worker_running = TRUE
    /\ best_val_loss = PosInf /\ best_model = NoModel /\ model = NoModel
    /\ current_val_loss = NaN /\ metrics_list = <<>>
    /\ files = <<>> /\ completed = <<>> /\ failed = {} /\ error = "none"

IdlePredict ==
    /\ seed_kind = "none" /\ input_data = <<>> /\ future_predictions = <<>>
    /\ days = 0 /\ const_pred = 0 /\ scaler = [dmin |-> 0, dmax |-> 1] /\ iter = 0

\* weights are named by the epoch (from 0) whose end produced them
NoWeights == -2          \* Python's None: nothing stored
InitialWeights == -1     \* the weights build_model gave the fresh model

IdleFit ==
    /\ fit = [epochs |-> 0, patience |-> 0, restore_on_train_end |-> FALSE, epoch |-> 0,
              weights |-> InitialWeights, stop_training |-> FALSE, history |-> <<>>]
    /\ checkpoint = [best |-> PosInf]
    /\ early_stopping = [best |-> PosInf, wait |-> 0, best_weights |-> NoWeights,
                         stopped_epoch |-> 0]
    /\ model_file = NoWeights

\* a DataFrame: its columns in order, its index (the ids of its rows), per
\* column the rows whose value is NaN, and per column the scalers that have
\* transformed its values, in the order they were applied
NoFrame == [columns |-> <<>>, index |-> {}, nan |-> <<>>, applied |-> <<>>]

IdleFeatures ==
    /\ entry = "none" /\ input_df = NoFrame /\ frame = NoFrame
    /\ fitted = <<>> /\ store = <<>> /\ pipe_error = "none"

\* a ModelPredictor none of whose fields is set
NoPredictor == [columns |-> <<>>, feature_scaler |-> <<>>, model |-> <<>>]

IdlePredictor ==
    /\ predictor = NoPredictor /\ call_depth = 0
    /\ predictions = <<>> /\ inverse = <<>>

IdleAux ==
    /\ IdleFit
    /\ IdleFeatures
    /\ IdlePredictor

InitWindow ==
    /\ pc = "start"
    /\ df \in Matrices
    /\ steps \in 1..MaxSteps
    /\ target_index \in 0..(NumCols - 1)
    /\ x = <<>> /\ y = <<>>
    /\ IdleTrain
    /\ IdlePredict
    /\ IdleAux

BuildWindows ==
    /\ pc = "start"
    /\ LET r == create_windowed_data(df, steps, target_index)
       IN /\ x' = r.x
          /\ y' = r.y
    /\ pc' = "windowed"
    /\ UNCHANGED <<df, steps, target_index>>
    /\ UNCHANGED trainVars
    /\ UNCHANGED predictVars
    /\ UNCHANGED auxVars

NextWindow == BuildWindows

SpecWindow == InitWindow /\ [][NextWindow]_vars

\* C1: create_windowed_data returns exactly max(0, n - steps) (window, label)
\* pairs; the k-th pair (from 0) has as window the rows k .. k+steps-1 in
\* their order and as label the target-column value of row k+steps; no pair
\* is produced when n <= steps.
C1_WindowsAndLabels ==
    pc = "windowed" =>
        /\ Len(x) = Max(0, Len(df) - steps)
        /\ Len(y) = Len(x)
        /\ \A k \in 0..(Len(x) - 1) :
              /\ Len(x[k + 1]) = steps
              /\ \A j \in 0..(steps - 1) : x[k + 1][j + 1] = df[k + j + 1]
              /\ y[k + 1] = df[k + steps + 1][target_index + 1]
        /\ (Len(df) <= steps => x = <<>> /\ y = <<>>)

\* witness of C1: at least two windows were built, of more than one row each
C1_Witness ==
    /\ pc = "windowed"
    /\ Len(x) >= 2
    /\ steps >= 2
    /\ df[1] # df[2]

(***************************************************************************)
(* Spec: one run of train.main(ticker, worker, parameters).                *)
(* The scaled dataset is a matrix of distinct cells (row r, column c holds *)
(* r * NumCols + c), so that windows and indices can be told apart.  It    *)
(* has at most MaxTrainRows rows, or, for the hold-out split, the rows     *)
(* that give 100 windows.                                                  *)
(***************************************************************************)
Dataset(rows) == [r \in 1..rows |-> [c \in 1..NumCols |-> (r - 1) * NumCols + (c - 1)]]

CloseIndex == CHOOSE c \in 0..(NumCols - 1) : Columns[c + 1] = "Close"

Init ==
    /\ pc = "start"
    /\ steps \in 1..MaxSteps
    /\ n_folds \in 0..MaxFolds
    /\ \E rows \in (0..MaxTrainRows) \cup (IF n_folds <= 1 THEN {100 + steps} ELSE {}) :
          df = Dataset(rows)
    /\ target_index = CloseIndex
    /\ x = <<>> /\ y = <<>>
    /\ splits = <<>> /\ fold = 0
    /\ worker_kind \in {"none", "attr", "method"}
    /\ worker_running = TRUE
    /\ best_val_loss = PosInf /\ best_model = NoModel /\ model = NoModel
    /\ current_val_loss = NaN /\ metrics_list = <<>>
    /\ files = <<>> /\ completed = <<>> /\ failed = {} /\ error = "none"
    /\ IdlePredict
    /\ IdleAux

Running == pc \in {"start", "split", "loop", "train", "compare", "metrics", "save"}

\* trainer = ModelTrainer(ticker): __init__ windows the prepared dataset
Construct ==
    /\ pc = "start"
    /\ LET r == create_windowed_data(df, steps, target_index)
       IN /\ x' = r.x
          /\ y' = r.y
    /\ pc' = "split"
    /\ UNCHANGED <<df, steps, target_index>>
    /\ UNCHANGED trainVars
    /\ UNCHANGED predictVars
    /\ UNCHANGED auxVars

\* lines 150-162.  tscv.split is a generator: its ValueError is raised when the
\* for statement asks for the first split, before anything else of the loop runs
MakeSplits ==
    /\ pc = "split"
    /\ LET r == IF n_folds > 1
                THEN TimeSeriesSplit(Len(x), n_folds)
                ELSE [ok |-> TRUE, splits |-> HoldoutSplit(Len(x))]
       IN /\ splits' = r.splits
          /\ pc' = IF r.ok THEN "loop" ELSE "raised"
          /\ error' = IF r.ok THEN "none" ELSE "split"
    /\ best_val_loss' = PosInf
    /\ best_model' = NoModel
    /\ metrics_list' = <<>>
    /\ UNCHANGED <<df, steps, target_index, x, y, n_folds, fold, worker_kind,
                   worker_running, model, current_val_loss, files, completed, failed>>
    /\ UNCHANGED predictVars
    /\ UNCHANGED auxVars

\* worker is not None and hasattr(worker, 'is_running') and not worker.is_running:
\* is_running is read, not called.  Of a worker whose is_running is a method (as
\* data/data_preparation.py:90 and feature_engineering.py:101 call it) the value
\* read is the bound method, which is true whatever the method would answer
StopSeen ==
    /\ worker_kind # "none"
    /\ ~ (IF worker_kind = "attr" THEN worker_running ELSE TRUE)

\* line 164-169: the for statement takes the next split, or ends the loop
NextFold ==
    /\ pc = "loop"
    /\ pc' = IF fold >= Len(splits) THEN "save"
             ELSE IF StopSeen THEN "stopped"
             ELSE "train"
    /\ UNCHANGED <<df, steps, target_index, x, y>>
    /\ UNCHANGED trainVars
    /\ UNCHANGED predictVars
    /\ UNCHANGED auxVars

\* mutant: a fold whose training raised is dropped and the loop goes on
TrainFoldRaise_discard ==
    /\ pc = "train"
    /\ failed' = failed \cup {fold}
    /\ fold' = fold + 1
    /\ pc' = "loop"
    /\ UNCHANGED <<df, steps, target_index, x, y, n_folds, splits, worker_kind,
                   worker_running, best_val_loss, best_model, model, current_val_loss,
                   metrics_list, files, completed, error>>
    /\ UNCHANGED predictVars
    /\ UNCHANGED auxVars

\* lines 171-181, train_model raising (build_model, fit or save): neither
\* train_model nor main catches, so the exception leaves main.  A checkpoint of
\* the fold may or may not have been written before the error
TrainFoldRaise ==
    /\ pc = "train"
    /\ failed' = failed \cup {fold}
    /\ error' = "train"
    /\ pc' = "raised"
    /\ files' \in {files, Put(files, FoldPath(Ticker, fold), FoldModel(fold))}
    /\ UNCHANGED <<df, steps, target_index, x, y, n_folds, splits, fold, worker_kind,
                   worker_running, best_val_loss, best_model, model, current_val_loss,
                   metrics_list, completed>>
    /\ UNCHANGED predictVars
    /\ UNCHANGED auxVars

\* lines 171-186, train_model returning (model, history) and main reading the
\* fold's monitored loss, min(history.history['val_loss']); fit needs non-empty
\* ranges.  The fold's file is the checkpoint, then model.save's copy
TrainFoldOk ==
    /\ pc = "train"
    /\ Len(splits[fold + 1].train) > 0
    /\ Len(splits[fold + 1].test) > 0
    /\ \E history \in Histories :
          /\ current_val_loss' = PyMin(history)
          /\ completed' = Append(completed,
                 [fold |-> fold, loss |-> PyMin(history), model |-> FoldModel(fold)])
    /\ model' = FoldModel(fold)
    /\ files' = Put(files, FoldPath(Ticker, fold), FoldModel(fold))
    /\ pc' = "compare"
    /\ UNCHANGED <<df, steps, target_index, x, y, n_folds, splits, fold, worker_kind,
                   worker_running, best_val_loss, best_model, metrics_list, failed, error>>
    /\ UNCHANGED predictVars
    /\ UNCHANGED auxVars

\* mutant: the fold is compared and the loop goes on without evaluating it
Compare_unevaluated ==
    /\ pc = "compare"
    /\ IF FloatLt(current_val_loss, best_val_loss)
       THEN /\ best_val_loss' = current_val_loss
            /\ best_model' = model
       ELSE UNCHANGED <<best_val_loss, best_model>>
    /\ fold' = fold + 1
    /\ pc' = "loop"
    /\ UNCHANGED <<df, steps, target_index, x, y, n_folds, splits, worker_kind,
                   worker_running, model, current_val_loss, metrics_list, files,
                   completed, failed, error>>
    /\ UNCHANGED predictVars
    /\ UNCHANGED auxVars

\* lines 187-189
Compare ==
    /\ pc = "compare"
    /\ IF FloatLt(current_val_loss, best_val_loss)
       THEN /\ best_val_loss' = current_val_loss
            /\ best_model' = model
       ELSE UNCHANGED <<best_val_loss, best_model>>
    /\ pc' = "metrics"
    /\ UNCHANGED <<df, steps, target_index, x, y, n_folds, splits, fold, worker_kind,
                   worker_running, model, current_val_loss, metrics_list, files,
                   completed, failed, error>>
    /\ UNCHANGED predictVars
    /\ UNCHANGED auxVars

\* lines 191-192
MetricsOk ==
    /\ pc = "metrics"
    /\ metrics_list' = Append(metrics_list, [fold |-> fold])
    /\ fold' = fold + 1
    /\ pc' = "loop"
    /\ UNCHANGED <<df, steps, target_index, x, y, n_folds, splits, worker_kind,
                   worker_running, best_val_loss, best_model, model, current_val_loss, files,
                   completed, failed, error>>
    /\ UNCHANGED predictVars
    /\ UNCHANGED auxVars

\* line 191: sklearn's metrics raise ValueError on a prediction that is nan or inf
MetricsRaise ==
    /\ pc = "metrics"
    /\ error' = "metrics"
    /\ pc' = "raised"
    /\ UNCHANGED <<df, steps, target_index, x, y, n_folds, splits, fold, worker_kind,
                   worker_running, best_val_loss, best_model, model, current_val_loss,
                   metrics_list, files, completed, failed>>
    /\ UNCHANGED predictVars
    /\ UNCHANGED auxVars

\* lines 194-206: "if best_model:" is true of every model, false of None
SaveBest ==
    /\ pc = "save"
    /\ files' = IF best_model # NoModel
                THEN Put(files, BestPath(Ticker), best_model)
                ELSE files
    /\ pc' = "done"
    /\ UNCHANGED <<df, steps, target_index, x, y, n_folds, splits, fold, worker_kind,
                   worker_running, best_val_loss, best_model, model, current_val_loss,
                   metrics_list, completed, failed, error>>
    /\ UNCHANGED predictVars
    /\ UNCHANGED auxVars

\* the external run-controller stops the run, at any moment
WorkerStop ==
    /\ Running
    /\ worker_kind # "none"
    /\ worker_running
    /\ worker_running' = FALSE
    /\ UNCHANGED <<pc, df, steps, target_index, x, y, n_folds, splits, fold,
                   worker_kind, best_val_loss, best_model, model, current_val_loss,
                   metrics_list, files, completed, failed, error>>
    /\ UNCHANGED predictVars
    /\ UNCHANGED auxVars

Next ==
    \/ Construct
    \/ MakeSplits
    \/ NextFold
    \/ TrainFoldOk
    \/ TrainFoldRaise
    \/ Compare
    \/ MetricsOk
    \/ MetricsRaise
    \/ SaveBest
    \/ WorkerStop

Spec == Init /\ [][Next]_vars

SplitsMade == pc \notin {"start", "split"} /\ error # "split"

Range(s) == {s[k] : k \in 1..Len(s)}

\* the first index of a validation range; of an empty one, the index after the last window
FirstOf(test) == IF test = <<>> THEN Len(x) ELSE test[1]

\* C2: in every split main produces (n_folds > 1 and n_folds <= 1) the train
\* range is exactly the prefix of window indices before the first validation
\* index: train and validation are disjoint, every train index is smaller than
\* every validation index, the validation range is one contiguous block inside
\* the windows, and with n_folds > 1 the train prefix grows strictly from each
\* fold to the next.
C2_TrainIsPrefixBeforeValidation ==
    SplitsMade =>
        \A k \in 1..Len(splits) :
            LET tr == splits[k].train
                te == splits[k].test
            IN /\ tr = Arange(0, FirstOf(te))
               /\ te = Arange(FirstOf(te), FirstOf(te) + Len(te))
               /\ Range(te) \subseteq 0..(Len(x) - 1)
               /\ Range(tr) \cap Range(te) = {}
               /\ \A a \in Range(tr) : \A b \in Range(te) : a < b
               /\ (n_folds > 1 /\ k < Len(splits)
                      => Len(splits[k + 1].train) > Len(tr))

\* witness of C2: the second fold of an expanding sweep, whose validation
\* blocks hold several windows, is being trained
C2_Witness ==
    /\ pc = "train"
    /\ n_folds >= 2
    /\ Len(splits) = n_folds
    /\ Len(splits[1].test) >= 2
    /\ fold = 1

\* C3: with n_folds = k > 1 main iterates over exactly k splits whose
\* validation ranges are non-empty, have strictly increasing start indices and
\* are pairwise non-overlapping, whenever the split succeeds.
C3_ValidationBlocksIncreaseDisjoint ==
    (SplitsMade /\ n_folds > 1) =>
        /\ Len(splits) = n_folds
        /\ \A k \in 1..Len(splits) : splits[k].test # <<>>
        /\ \A k \in 1..(Len(splits) - 1) : splits[k].test[1] < splits[k + 1].test[1]
        /\ \A j, k \in 1..Len(splits) :
              j # k => Range(splits[j].test) \cap Range(splits[k].test) = {}
        /\ (pc \in {"save", "done"} => fold = n_folds)

\* witness of C3: main has iterated over all k = 3 splits of a sweep
C3_Witness ==
    /\ pc = "done"
    /\ n_folds = 3
    /\ fold = 3
    /\ Len(metrics_list) = 3

\* C4: with n_folds <= 1 and N windows main produces exactly one split, train
\* = indices 0 .. floor(0.8*N)-1 and validation = indices floor(0.8*N) .. N-1,
\* in order; for N = 100 train is 0..79 and validation is 80..99.
C4_HoldoutEightyTwenty ==
    (SplitsMade /\ n_folds <= 1) =>
        /\ Len(splits) = 1
        /\ LET tr == splits[1].train
               te == splits[1].test
               N == Len(x)
           IN /\ 5 * Len(tr) <= 4 * N
              /\ 4 * N < 5 * (Len(tr) + 1)
              /\ Len(tr) + Len(te) = N
              /\ \A k \in 1..Len(tr) : tr[k] = k - 1
              /\ \A k \in 1..Len(te) : te[k] = Len(tr) + k - 1
              /\ (N = 100 => /\ Len(tr) = 80 /\ tr[1] = 0 /\ tr[80] = 79
                             /\ Len(te) = 20 /\ te[1] = 80 /\ te[20] = 99)

\* witness of C4: the single split of 100 windows is being trained
C4_Witness ==
    /\ pc = "train"
    /\ n_folds = 1
    /\ Len(x) = 100
    /\ Len(splits) = 1

\* C5: after main has processed any number of folds, best_model is the model
\* of a completed fold whose monitored validation loss (the minimum val_loss
\* over its epochs) is the lowest among the folds completed so far, and
\* best_val_loss equals that lowest value.
C5_BestIsLowestCompleted ==
    (pc # "compare" /\ completed # <<>>) =>
        \E c \in Range(completed) :
            /\ \A d \in Range(completed) : FloatLe(c.loss, d.loss)
            /\ best_model = c.model
            /\ best_val_loss = c.loss

\* C6: whenever main runs its sweep to the end and at least one fold completed
\* training, the best artifact is persisted under model_{ticker}_best when
\* main returns, whatever validation losses the folds reported.
C6_BestPersistedAtReturn ==
    (pc = "done" /\ completed # <<>>) =>
        /\ BestPath(Ticker) \in DOMAIN files
        /\ files[BestPath(Ticker)] \in {c.model : c \in Range(completed)}

\* C7: if the run-controller's "still running" query answers "stopped" when
\* main checks it before a fold, main returns before training that fold or
\* any later fold, and that run persists no best artifact; the check is made
\* only between folds.
C7_StopBeforeFoldReturns ==
    [][ /\ (pc = "loop" /\ pc' # "loop" /\ fold < Len(splits)
               /\ worker_kind # "none" /\ ~worker_running)
           => pc' = "stopped"
        /\ pc' = "stopped"
           => (pc \in {"loop", "stopped"} /\ BestPath(Ticker) \notin DOMAIN files')
      ]_vars

\* C8 as stated: a fold whose training raises is discarded and the sweep goes
\* on, so the run fails on a training error only if every fold failed.
C8_RunFailsOnlyIfEveryFoldFails ==
    error = "train" => failed = 0..(Len(splits) - 1)

\* C8 amended: an error raised while training a fold leaves main at once: that
\* fold is the only failed one, no later fold is trained or evaluated, and the
\* run persists no best artifact, whatever folds had completed before.
C8_FoldErrorAbortsRun ==
    failed # {} =>
        /\ pc = "raised"
        /\ error = "train"
        /\ failed = {fold}
        /\ Len(completed) = fold
        /\ Len(metrics_list) = fold
        /\ BestPath(Ticker) \notin DOMAIN files

\* witness of C8: a fold raised after an earlier fold had completed and with
\* a later fold still to train
C8_Witness ==
    /\ failed = {1}
    /\ Len(completed) = 1
    /\ Len(splits) = 3
    /\ best_model = FoldModel(0)

\* the windowed dataset cannot give every requested fold a validation window:
\* a sweep of k > 1 folds needs k windows, the single hold-out split needs one
TooSmall == IF n_folds > 1 THEN Len(x) < n_folds ELSE Len(x) < 1

\* C14: for every n_folds, main fails with an insufficient-data error before
\* training any fold whenever the windowed dataset is too small to give each
\* requested fold a non-empty validation range; it never trains a fold whose
\* validation range is empty.
C14_InsufficientDataFailsBeforeTraining ==
    /\ pc = "train" => splits[fold + 1].test # <<>>
    /\ (pc \notin {"start", "split"} /\ TooSmall)
          => (pc = "raised" /\ error = "split" /\ completed = <<>> /\ failed = {})

\* C17: within one run the files written for two different fold indices have
\* different paths and no fold's path is the path of the best artifact,
\* whatever the order of the folds; so every fold that completed still has
\* its own model in its own file, and the best artifact sits in a further one.
C17_FoldPathsNeverCollide ==
    /\ \A i, j \in 0..MaxFolds :
          i # j => /\ FoldPath(Ticker, i) # FoldPath(Ticker, j)
                   /\ CallbackPath(Ticker, i, Monitor) # CallbackPath(Ticker, j, Monitor)
    /\ \A i \in 0..MaxFolds :
          /\ FoldPath(Ticker, i) # BestPath(Ticker)
          /\ CallbackPath(Ticker, i, Monitor) # BestPath(Ticker)
    /\ \A c \in Range(completed) :
          /\ FoldPath(Ticker, c.fold) \in DOMAIN files
          /\ files[FoldPath(Ticker, c.fold)] = c.model
    /\ Cardinality(DOMAIN files \ {BestPath(Ticker)}) >= Len(completed)

\* witness of C17: three folds and the best artifact are on disk, in four files
C17_Witness ==
    /\ pc = "done"
    /\ Len(completed) = 3
    /\ BestPath(Ticker) \in DOMAIN files
    /\ Cardinality(DOMAIN files) = 4

\* C19 as stated: a fold is compared against (and possibly promoted to) the
\* running best only after its MetricsRecord has been computed.
C19_EvaluatedBeforeCompared ==
    [][ (pc = "compare" /\ pc' # pc) => Len(metrics_list) = fold + 1 ]_vars

\* C19 amended: every fold main trains is fitted on a fresh regressor, then
\* compared against the running best by its monitored loss (promoted or not),
\* and only then evaluated: its MetricsRecord is computed after the
\* comparison, is appended once, and plays no part in the promotion.
C19_ComparedThenEvaluated ==
    [][ /\ (pc' = "compare" /\ pc # "compare")
              => (pc = "train" /\ model' = FoldModel(fold))
        /\ (pc = "compare" /\ pc' # pc)
              => /\ pc' = "metrics"
                 /\ Len(metrics_list) = fold
                 /\ metrics_list' = metrics_list
                 /\ best_model' \in {best_model, model}
        /\ best_model' # best_model => pc = "compare"
        /\ metrics_list' # metrics_list
              => /\ pc = "metrics"
                 /\ pc' = "loop"
                 /\ metrics_list' = Append(metrics_list, [fold |-> fold])
                 /\ best_model' = best_model
      ]_vars

\* witness of C19: a later fold has been promoted to best and its metrics are
\* still to be computed
C19_Witness ==
    /\ pc = "metrics"
    /\ fold >= 1
    /\ best_model = FoldModel(fold)
    /\ Len(metrics_list) = fold

(***************************************************************************)
(* SpecPredict: one call predict_next_days(model, initial_data, scaler,    *)
(* days, timesteps) of src/predict.py, with a regressor that predicts the  *)
(* scaled value const_pred whatever its input.  initial_data is what main  *)
(* passes, the ndarray reshape_data returned, or a DataFrame; its rows are *)
(* kept as a sequence either way.                                          *)
(***************************************************************************)
ScaledValues == {0, 1}
Scalers == {[dmin |-> 10, dmax |-> 20], [dmin |-> 0, dmax |-> 3]}
SeedKinds == {"ndarray", "DataFrame"}

\* MinMaxScaler.inverse_transform of one fitted column, feature_range (0, 1):
\* (v - min_) / scale_ with scale_ = 1 / (dmax - dmin), min_ = -dmin * scale_
InverseTransform(sc, v) == v * (sc.dmax - sc.dmin) + sc.dmin

\* predict_price: scaler.inverse_transform(model.predict(data))[0, 0]
predict_price(c, sc) == InverseTransform(sc, c)

\* input_data[-timesteps:]
LastRows(data, timesteps) == Slice(data, Max(0, Len(data) - timesteps), Len(data))

\* np.append(input_data[-1, 1:], predicted_price): the last row without its
\* first column, followed by the price
NewRow(data, price) == Append(Tail(data[Len(data)]), price)

\* one iteration of the loop of predict_next_days (lines 34-38), statement by
\* statement; the result says whether it raised
Iteration(kind, data, timesteps, c, sc, preds) ==
    IF kind # "DataFrame"
    THEN \* reshape_data: last_window.values, and an ndarray has no attribute values
         [raised |-> TRUE, error |-> "AttributeError", input_data |-> data,
          future_predictions |-> preds]
    ELSE IF Len(LastRows(data, timesteps)) # timesteps
    THEN \* reshape(1, timesteps, features) of fewer elements
         [raised |-> TRUE, error |-> "ValueError", input_data |-> data,
          future_predictions |-> preds]
    ELSE LET predicted_price == predict_price(c, sc)
             appended == Append(preds, predicted_price)
         IN IF kind # "ndarray"
            THEN \* input_data[-1, 1:]: a DataFrame takes the tuple for a column key
                 [raised |-> TRUE, error |-> "InvalidIndexError", input_data |-> data,
                  future_predictions |-> appended]
            ELSE [raised |-> FALSE, error |-> "none",
                  input_data |-> Append(data, NewRow(data, predicted_price)),
                  future_predictions |-> appended]

InitPredict ==
    /\ pc = "predict"
    /\ steps \in 1..MaxSteps
    /\ seed_kind \in SeedKinds
    /\ input_data \in [1..steps -> [1..NumCols -> ScaledValues]]
    /\ days \in 0..MaxDays
    /\ const_pred \in ScaledValues
    /\ scaler \in Scalers
    /\ future_predictions = <<>>
    /\ iter = 0
    /\ df = <<>> /\ target_index = CloseIndex /\ x = <<>> /\ y = <<>>
    /\ IdleTrain
    /\ IdleAux

\* for _ in range(days): one pass of the body
PredictIteration ==
    /\ pc = "predict"
    /\ iter < days
    /\ LET r == Iteration(seed_kind, input_data, steps, const_pred, scaler,
                          future_predictions)
       IN /\ input_data' = r.input_data
          /\ future_predictions' = r.future_predictions
          /\ error' = r.error
          /\ pc' = IF r.raised THEN "raised" ELSE "predict"
    /\ iter' = iter + 1
    /\ UNCHANGED <<df, steps, target_index, x, y, n_folds, splits, fold, worker_kind,
                   worker_running, best_val_loss, best_model, model, current_val_loss,
                   metrics_list, files, completed, failed>>
    /\ UNCHANGED <<seed_kind, days, const_pred, scaler>>
    /\ UNCHANGED auxVars

\* return future_predictions
PredictReturn ==
    /\ pc = "predict"
    /\ iter >= days
    /\ pc' = "returned"
    /\ UNCHANGED <<df, steps, target_index, x, y>>
    /\ UNCHANGED trainVars
    /\ UNCHANGED predictVars
    /\ UNCHANGED auxVars

NextPredict ==
    \/ PredictIteration
    \/ PredictReturn

SpecPredict == InitPredict /\ [][NextPredict]_vars

\* C9: with a regressor that always predicts the scaled value c,
\* predict_next_days returns exactly h = days values, each the target scaler's
\* single-column inverse transform of c.
C9_ConstantRegressorHorizon ==
    pc \in {"returned", "raised"} =>
        /\ pc = "returned"
        /\ Len(future_predictions) = days
        /\ \A k \in 1..Len(future_predictions) :
              future_predictions[k] = InverseTransform(scaler, const_pred)

\* C10: every iteration of predict_next_days leaves as next model input the
\* current window without its oldest row plus one synthetic row, which keeps
\* every non-target column of the previous last row in place and holds the new
\* scaled prediction in the target column's slot; the window keeps its length.
C10_NextWindowCarriesFeaturesForward ==
    [][ iter' = iter + 1 =>
          LET w == LastRows(input_data, steps)
              nw == LastRows(input_data', steps)
          IN /\ pc' = "predict"
             /\ Len(nw) = steps
             /\ SubSeq(nw, 1, steps - 1) = Tail(w)
             /\ nw[steps] = [c \in 1..NumCols |->
                                IF c = CloseIndex + 1 THEN const_pred ELSE w[steps][c]]
      ]_vars

(***************************************************************************)
(* SpecFit: one call of train_model (src/src/train.py, lines 81-128), one  *)
(* epoch of model.fit at a time.  Each epoch ends with a validation loss   *)
(* and the callbacks' on_epoch_end, in the order of the callbacks list:    *)
(* ModelCheckpoint(monitor='val_loss', save_best_only=True), then          *)
(* EarlyStopping(monitor='val_loss', patience, restore_best_weights=True). *)
(* Keras' EarlyStopping restores the best weights when patience runs out;  *)
(* whether it also restores them when fit ends after the last configured   *)
(* epoch differs between Keras releases (on_train_end restores since Keras *)
(* 3), and the repository pins none: fit.restore_on_train_end is either.   *)
(***************************************************************************)
\* ModelCheckpoint.on_epoch_end with save_best_only: np.less(current, best)
ModelCheckpoint_on_epoch_end(cp, file, current, weights) ==
    IF FloatLt(current, cp.best)
    THEN [cp |-> [cp EXCEPT !.best = current], file |-> weights]
    ELSE [cp |-> cp, file |-> file]

\* EarlyStopping.on_epoch_end with min_delta = 0, baseline None
EarlyStopping_on_epoch_end(es, patience, restores_at_trigger, epoch, current, weights) ==
    LET es1 == IF es.best_weights = NoWeights
               THEN [es EXCEPT !.best_weights = weights]
               ELSE es
        es2 == [es1 EXCEPT !.wait = @ + 1]
    IN IF FloatLt(current, es2.best)
       THEN [es |-> [es2 EXCEPT !.best = current, !.best_weights = weights, !.wait = 0],
             stop_training |-> FALSE, weights |-> weights]
       ELSE IF es2.wait >= patience /\ epoch > 0
       THEN [es |-> [es2 EXCEPT !.stopped_epoch = epoch],
             stop_training |-> TRUE,
             weights |-> IF restores_at_trigger THEN es2.best_weights ELSE weights]
       ELSE [es |-> es2, stop_training |-> FALSE, weights |-> weights]

InitFit ==
    /\ pc = "fit"
    /\ \E epochs \in 1..MaxEpochs, patience \in 0..MaxPatience, r \in BOOLEAN :
          fit = [epochs |-> epochs, patience |-> patience, restore_on_train_end |-> r,
                 epoch |-> 0, weights |-> InitialWeights, stop_training |-> FALSE,
                 history |-> <<>>]
    /\ checkpoint = [best |-> PosInf]
    /\ early_stopping = [best |-> PosInf, wait |-> 0, best_weights |-> NoWeights,
                         stopped_epoch |-> 0]
    /\ model_file = NoWeights
    /\ df = <<>> /\ steps = 1 /\ target_index = CloseIndex /\ x = <<>> /\ y = <<>>
    /\ IdleTrain
    /\ IdlePredict
    /\ IdleFeatures
    /\ IdlePredictor

\* lines 112-119: one epoch of model.fit and the callbacks at its end
FitEpoch ==
    /\ pc = "fit"
    /\ fit.epoch < fit.epochs
    /\ ~fit.stop_training
    /\ \E val_loss \in LossVals :
          LET trained == fit.epoch
              cp == ModelCheckpoint_on_epoch_end(checkpoint, model_file, val_loss, trained)
              es == EarlyStopping_on_epoch_end(early_stopping, fit.patience,
                                               ~fit.restore_on_train_end, fit.epoch,
                                               val_loss, trained)
          IN /\ checkpoint' = cp.cp
             /\ model_file' = cp.file
             /\ early_stopping' = es.es
             /\ fit' = [fit EXCEPT !.epoch = @ + 1,
                                   !.weights = es.weights,
                                   !.stop_training = es.stop_training,
                                   !.history = Append(@, val_loss)]
    /\ UNCHANGED pc
    /\ UNCHANGED windowVars
    /\ UNCHANGED trainVars
    /\ UNCHANGED predictVars
    /\ UNCHANGED featureVars
    /\ UNCHANGED predictorVars

\* lines 112-119: fit ends (epochs exhausted or stop_training); on_train_end
FitEnd ==
    /\ pc = "fit"
    /\ (fit.epoch >= fit.epochs \/ fit.stop_training)
    /\ fit' = [fit EXCEPT !.weights =
                  IF fit.restore_on_train_end /\ early_stopping.best_weights # NoWeights
                  THEN early_stopping.best_weights
                  ELSE @]
    /\ pc' = "fitted"
    /\ UNCHANGED <<checkpoint, early_stopping, model_file>>
    /\ UNCHANGED windowVars
    /\ UNCHANGED trainVars
    /\ UNCHANGED predictVars
    /\ UNCHANGED featureVars
    /\ UNCHANGED predictorVars

\* lines 121-124: model.save(model_path), the path the checkpoint wrote to
SaveModel ==
    /\ pc = "fitted"
    /\ model_file' = fit.weights
    /\ pc' = "saved"
    /\ UNCHANGED <<fit, checkpoint, early_stopping>>
    /\ UNCHANGED windowVars
    /\ UNCHANGED trainVars
    /\ UNCHANGED predictVars
    /\ UNCHANGED featureVars
    /\ UNCHANGED predictorVars

\* line 128: return model, history
ReturnModel ==
    /\ pc = "saved"
    /\ pc' = "fit_returned"
    /\ UNCHANGED fitVars
    /\ UNCHANGED windowVars
    /\ UNCHANGED trainVars
    /\ UNCHANGED predictVars
    /\ UNCHANGED featureVars
    /\ UNCHANGED predictorVars

NextFit ==
    \/ FitEpoch
    \/ FitEnd
    \/ SaveModel
    \/ ReturnModel

SpecFit == InitFit /\ [][NextFit]_vars

\* C20: when train_model returns, after early stopping or after all the
\* configured epochs, the fold's file and the returned model both hold the
\* weights of the epoch with the lowest validation loss of the fold, so the
\* returned model has the loss main records for it, min(history['val_loss']).
\* (Stated for histories whose losses are all numbers.)
C20_ReturnedAndSavedWeightsAreBest ==
    (pc = "fit_returned" /\ NaN \notin Range(fit.history)) =>
        /\ fit.weights \in 0..(Len(fit.history) - 1)
        /\ fit.history[fit.weights + 1] = PyMin(fit.history)
        /\ \A k \in 1..Len(fit.history) :
              ~FloatLt(fit.history[k], fit.history[fit.weights + 1])
        /\ model_file = fit.weights

(***************************************************************************)
(* SpecFeatures: the data scripts.                                         *)
(*   data_preparation.main (src/data_preparation.py, lines 116-131)        *)
(*   feature_engineering.main / process_and_save_features                  *)
(*                         (src/src/feature_engineering.py, lines 58-99)   *)
(* A run starts with either script; feature_engineering may also follow a  *)
(* finished data_preparation and read the file it wrote.  Of the values of *)
(* a DataFrame the model keeps which are NaN and which scalers have been   *)
(* applied to them.  The Close column of an input has no NaN.              *)
(***************************************************************************)
CLOSE == "Close"

\* df[['Open', 'High', 'Low', 'Close', 'Adj Close', 'Volume']]
RawColumns == <<"Open", "High", "Low", "Close", "Adj Close", "Volume">>

\* the columns calculate_technical_indicators assigns, in its order
IndicatorColumns == <<"MA50", "MA200", "Returns", "Volatility", "MA20",
                      "Upper", "Lower", "RSI", "MACD">>

columns_to_scale == <<"Open", "High", "Low", "Close", "Adj Close", "Volume",
                      "MA50", "MA200", "Returns", "Volatility", "MA20",
                      "Upper", "Lower", "RSI", "MACD">>

\* COLUMN_SETS['to_scale'] + COLUMN_SETS['required']
required_columns == columns_to_scale \o RawColumns

MA50Window == 50
MA200Window == 200
MA20Window == 20
VolatilityWindow == 50
MACDMinPeriods == 26

\* the files of one instrument
RawDataPath(ticker) == <<"data/", "raw_data_", ticker, ".csv">>
ProcessedDataPath(ticker) == <<"data/", "processed_data_", ticker, ".csv">>
ScaledDataPath(ticker) == <<"data/", "scaled_data_", ticker, ".csv">>
JointScalerPath(ticker) == <<"scalers/", "scaler_", ticker, ".pkl">>
ScalerPath(scaler_type, ticker) == <<"scalers/", scaler_type, "_scaler_", ticker, ".pkl">>

HasColumn(f, c) == \E k \in 1..Len(f.columns) : f.columns[k] = c

ColumnSet(f) == {f.columns[k] : k \in 1..Len(f.columns)}

\* a frame of n rows with the given columns, without NaN but in the columns
\* of all_nan, which hold nothing else
NewFrame(cols, n, all_nan) ==
    [columns |-> cols,
     index |-> 0..(n - 1),
     nan |-> [c \in {cols[k] : k \in 1..Len(cols)} |->
                 IF c \in all_nan THEN 0..(n - 1) ELSE {}],
     applied |-> [c \in {cols[k] : k \in 1..Len(cols)} |-> <<>>]]

\* df[c] = values: a new column goes last, an existing one keeps its place
SetColumn(f, c, nans) ==
    LET cols == IF HasColumn(f, c) THEN f.columns ELSE Append(f.columns, c)
    IN [columns |-> cols,
        index |-> f.index,
        nan |-> [k \in ColumnSet(f) \cup {c} |-> IF k = c THEN nans ELSE f.nan[k]],
        applied |-> [k \in ColumnSet(f) \cup {c} |-> IF k = c THEN <<>> ELSE f.applied[k]]]

\* series.rolling(w).mean() / .std(): NaN unless the w rows ending here all have a value
RollingNaN(nans, index, w) ==
    {r \in index : r < w - 1 \/ \E q \in nans : q <= r /\ r < q + w}

\* series.pct_change(): NaN in the first row and next to a NaN
PctChangeNaN(nans, index) ==
    {r \in index : r = 0 \/ r \in nans \/ (r - 1) \in nans}

\* series.ewm(span, min_periods).mean(): NaN until min_periods values were seen
EwmNaN(nans, index, min_periods) ==
    {r \in index : (r + 1) - Cardinality({q \in nans : q <= r}) < min_periods}

\* calculate_technical_indicators: the check of the Close column, then the
\* nine assignments.  RSI has no NaN: deltas.where(cond, 0) turns the first
\* delta into 0, the rolling means use min_periods=1 and a zero average loss
\* is replaced by 1e-10
calculate_technical_indicators(f) ==
    IF ~HasColumn(f, CLOSE)
    THEN [ok |-> FALSE, df |-> f]
    ELSE LET close == f.nan[CLOSE]
             f1 == SetColumn(f, "MA50", RollingNaN(close, f.index, MA50Window))
             f2 == SetColumn(f1, "MA200", RollingNaN(close, f.index, MA200Window))
             f3 == SetColumn(f2, "Returns", PctChangeNaN(close, f.index))
             f4 == SetColumn(f3, "Volatility",
                             RollingNaN(f3.nan["Returns"], f.index, VolatilityWindow))
             f5 == SetColumn(f4, "MA20", RollingNaN(close, f.index, MA20Window))
             f6 == SetColumn(f5, "Upper", f5.nan["MA20"] \cup f5.nan["Volatility"])
             f7 == SetColumn(f6, "Lower", f6.nan["MA20"] \cup f6.nan["Volatility"])
             f8 == SetColumn(f7, "RSI", {})
             f9 == SetColumn(f8, "MACD", EwmNaN(close, f.index, MACDMinPeriods))
         IN [ok |-> TRUE, df |-> f9]

HasNaN(f) == \E c \in ColumnSet(f) : f.nan[c] # {}

\* df.bfill(): a NaN takes the next value below it in its column, if there is one
bfill(f) ==
    [f EXCEPT !.nan = [c \in ColumnSet(f) |->
        IF f.nan[c] = {} THEN {}
        ELSE {r \in f.nan[c] : \A q \in f.index : q > r => q \in f.nan[c]}]]

\* df.dropna(): the rows with a NaN in any column are removed
dropna(f) ==
    [f EXCEPT !.index = @ \ UNION {f.nan[c] : c \in ColumnSet(f)},
              !.nan = [c \in ColumnSet(f) |-> {}]]

\* validate_input_data: the required columns the frame lacks
validate_input_data_lax(f, required) == {}

validate_input_data(f, required) ==
    {required[k] : k \in 1..Len(required)} \ ColumnSet(f)

\* [col for col in df.columns if col != CLOSE]
ColumnsToNormalize_all(f) == f.columns

ColumnsToNormalize(f) == SelectSeq(f.columns, LAMBDA c : c # CLOSE)

\* MinMaxScaler().fit_transform(df[cols]) assigned back to df[cols]: the
\* fitted scaler, and the frame with the columns transformed
FitTransform(f, cols, role) ==
    [scaler |-> [columns |-> cols, n_samples |-> Cardinality(f.index)],
     df |-> [f EXCEPT !.applied = [c \in ColumnSet(f) |->
                 IF \E k \in 1..Len(cols) : cols[k] = c
                 THEN Append(f.applied[c], role)
                 ELSE f.applied[c]]]]

MaxPriceRowsSet == 0..MaxPriceRows

\* the input of data_preparation: the downloaded history, ffilled and
\* bfilled; a column without any value (here Volume) stays NaN
DownloadedFrames ==
    {NewFrame(RawColumns, n, IF empty THEN {"Volume"} ELSE {}) :
        n \in MaxPriceRowsSet, empty \in BOOLEAN}

\* the input of feature_engineering started by itself: a processed_data file
\* with the raw columns, of which one may be absent
GivenFrames ==
    {NewFrame(SelectSeq(RawColumns, LAMBDA c : c # absent), n,
              IF empty THEN {"Volume"} ELSE {}) :
        n \in MaxPriceRowsSet, empty \in BOOLEAN, absent \in ColumnSet([columns |-> RawColumns]) \cup {"none"}}

InitFeatures ==
    /\ entry \in {"data_preparation", "feature_engineering"}
    /\ pc = IF entry = "data_preparation" THEN "dp_start" ELSE "fe_start"
    /\ input_df \in IF entry = "data_preparation" THEN DownloadedFrames ELSE GivenFrames
    /\ store = IF entry = "data_preparation" THEN <<>>
               ELSE Put(<<>>, ProcessedDataPath(Ticker), input_df)
    /\ frame = NoFrame
    /\ fitted = <<>>
    /\ pipe_error = "none"
    /\ df = <<>> /\ steps = 1 /\ target_index = CloseIndex /\ x = <<>> /\ y = <<>>
    /\ IdleTrain
    /\ IdlePredict
    /\ IdleFit
    /\ IdlePredictor

Raise(kind, raised_pc) ==
    /\ pc' = raised_pc
    /\ pipe_error' = kind

\* data_preparation.main, lines 117-119: the history is written and read back
DpDownload ==
    /\ pc = "dp_start"
    /\ store' = Put(store, RawDataPath(Ticker), input_df)
    /\ frame' = input_df
    /\ pc' = "dp_indicators"
    /\ UNCHANGED <<entry, input_df, fitted, pipe_error>>
    /\ UNCHANGED <<windowVars, trainVars, predictVars, fitVars, predictorVars>>

\* line 120
DpIndicators ==
    /\ pc = "dp_indicators"
    /\ LET r == calculate_technical_indicators(frame)
       IN /\ frame' = r.df
          /\ IF r.ok THEN pc' = "dp_fill" /\ UNCHANGED pipe_error
             ELSE Raise("MissingColumn", "dp_raised")
    /\ UNCHANGED <<entry, input_df, fitted, store>>
    /\ UNCHANGED <<windowVars, trainVars, predictVars, fitVars, predictorVars>>

\* line 121
DpFill ==
    /\ pc = "dp_fill"
    /\ frame' = bfill(frame)
    /\ pc' = "dp_check"
    /\ UNCHANGED <<entry, input_df, fitted, store, pipe_error>>
    /\ UNCHANGED <<windowVars, trainVars, predictVars, fitVars, predictorVars>>

\* lines 123-124
DpCheck ==
    /\ pc = "dp_check"
    /\ IF HasNaN(frame) THEN Raise("IncompleteData", "dp_raised")
       ELSE pc' = "dp_normalize" /\ UNCHANGED pipe_error
    /\ UNCHANGED <<entry, input_df, frame, fitted, store>>
    /\ UNCHANGED <<windowVars, trainVars, predictVars, fitVars, predictorVars>>

\* line 126, normalize_features(df, columns_to_scale) (lines 37-47); fitting a
\* MinMaxScaler on no rows raises ValueError
DpNormalize ==
    /\ pc = "dp_normalize"
    /\ IF validate_input_data(frame, columns_to_scale) # {}
       THEN Raise("MissingColumn", "dp_raised") /\ UNCHANGED <<frame, fitted>>
       ELSE IF frame.index = {}
       THEN Raise("EmptyData", "dp_raised") /\ UNCHANGED <<frame, fitted>>
       ELSE LET r == FitTransform(frame, columns_to_scale, "joint")
            IN /\ frame' = r.df
               /\ fitted' = Put(fitted, "joint", r.scaler)
               /\ pc' = "dp_save"
               /\ UNCHANGED pipe_error
    /\ UNCHANGED <<entry, input_df, store>>
    /\ UNCHANGED <<windowVars, trainVars, predictVars, fitVars, predictorVars>>

\* lines 127-130
DpSave ==
    /\ pc = "dp_save"
    /\ store' = Put(Put(store, JointScalerPath(Ticker), fitted["joint"]),
                    ProcessedDataPath(Ticker), frame)
    /\ pc' = "dp_done"
    /\ UNCHANGED <<entry, input_df, frame, fitted, pipe_error>>
    /\ UNCHANGED <<windowVars, trainVars, predictVars, fitVars, predictorVars>>

\* feature_engineering.main, lines 88-96: started by itself or after
\* data_preparation (__main__.py runs the scripts in turn, whether or not
\* one failed); without the processed file it returns
FeRead ==
    /\ pc \in {"fe_start", "dp_done", "dp_raised"}
    /\ IF ProcessedDataPath(Ticker) \in DOMAIN store
       THEN /\ frame' = store[ProcessedDataPath(Ticker)]
            /\ input_df' = store[ProcessedDataPath(Ticker)]
            /\ pc' = "fe_indicators"
       ELSE /\ pc' = "fe_returned"
            /\ UNCHANGED <<frame, input_df>>
    /\ fitted' = <<>>
    /\ UNCHANGED <<entry, store, pipe_error>>
    /\ UNCHANGED <<windowVars, trainVars, predictVars, fitVars, predictorVars>>

\* process_and_save_features, lines 62-63
FeIndicators ==
    /\ pc = "fe_indicators"
    /\ LET r == calculate_technical_indicators(frame)
       IN /\ frame' = r.df
          /\ IF r.ok THEN pc' = "fe_validate" /\ UNCHANGED pipe_error
             ELSE Raise("MissingColumn", "fe_raised")
    /\ UNCHANGED <<entry, input_df, fitted, store>>
    /\ UNCHANGED <<windowVars, trainVars, predictVars, fitVars, predictorVars>>

\* lines 65-66
FeValidate ==
    /\ pc = "fe_validate"
    /\ IF validate_input_data(frame, required_columns) # {}
       THEN Raise("MissingColumn", "fe_raised")
       ELSE pc' = "fe_clean" /\ UNCHANGED pipe_error
    /\ UNCHANGED <<entry, input_df, frame, fitted, store>>
    /\ UNCHANGED <<windowVars, trainVars, predictVars, fitVars, predictorVars>>

\* line 68, clean_data
FeClean ==
    /\ pc = "fe_clean"
    /\ frame' = dropna(frame)
    /\ pc' = "fe_features"
    /\ UNCHANGED <<entry, input_df, fitted, store, pipe_error>>
    /\ UNCHANGED <<windowVars, trainVars, predictVars, fitVars, predictorVars>>

\* lines 70-72, normalize_features
FeNormalizeFeatures ==
    /\ pc = "fe_features"
    /\ IF frame.index = {}
       THEN Raise("EmptyData", "fe_raised") /\ UNCHANGED <<frame, fitted>>
       ELSE LET r == FitTransform(frame, ColumnsToNormalize(frame), "feature")
            IN /\ frame' = r.df
               /\ fitted' = Put(fitted, "feature", r.scaler)
               /\ pc' = "fe_close"
               /\ UNCHANGED pipe_error
    /\ UNCHANGED <<entry, input_df, store>>
    /\ UNCHANGED <<windowVars, trainVars, predictVars, fitVars, predictorVars>>

\* lines 74-75, normalize_close
FeNormalizeClose ==
    /\ pc = "fe_close"
    /\ LET r == FitTransform(frame, <<CLOSE>>, "close")
       IN /\ frame' = r.df
          /\ fitted' = Put(fitted, "close", r.scaler)
    /\ pc' = "fe_save"
    /\ UNCHANGED <<entry, input_df, store, pipe_error>>
    /\ UNCHANGED <<windowVars, trainVars, predictVars, fitVars, predictorVars>>

\* lines 77-82
FeSave ==
    /\ pc = "fe_save"
    /\ store' = Put(Put(Put(store, ScalerPath("close", Ticker), fitted["close"]),
                        ScalerPath("feature", Ticker), fitted["feature"]),
                    ScaledDataPath(Ticker), frame)
    /\ pc' = "fe_done"
    /\ UNCHANGED <<entry, input_df, frame, fitted, pipe_error>>
    /\ UNCHANGED <<windowVars, trainVars, predictVars, fitVars, predictorVars>>

\* train.main after the feature script (src/src/train.py), as far as the
\* files go: ModelTrainer.__init__ loads feature_scaler_{ticker}.pkl and
\* scaled_data_{ticker}.csv and windows the latter; train_model builds the
\* model for input_shape (train_steps, len(COLUMN_SETS['to_scale'])) and fits
\* it on those windows; a best model may be persisted.  Fitting needs a train
\* and a validation window (the hold-out split of lines 155-156)
TrainRun ==
    /\ pc \in {"fe_done", "fe_raised", "fe_returned"}
    /\ IF ScalerPath("feature", Ticker) \notin DOMAIN store
          \/ ScaledDataPath(Ticker) \notin DOMAIN store
       THEN Raise("TrainerFileNotFound", "tr_raised") /\ UNCHANGED store
       ELSE \E st \in 1..MaxSteps :
               LET scaled == store[ScaledDataPath(Ticker)]
                   windows == Max(0, Cardinality(scaled.index) - st)
                   split == HoldoutSplit(windows)[1]
               IN IF split.train = <<>> \/ split.test = <<>>
                  THEN Raise("TrainingFailed", "tr_raised") /\ UNCHANGED store
                  ELSE /\ pc' = "tr_done"
                       /\ pipe_error' = "none"
                       /\ store' \in {store,
                                      Put(store, BestPath(Ticker),
                                          [input_width |-> Len(columns_to_scale),
                                           columns |-> scaled.columns,
                                           steps |-> st])}
    /\ UNCHANGED <<entry, input_df, frame, fitted>>
    /\ UNCHANGED <<windowVars, trainVars, predictVars, fitVars, predictorVars>>

\* predictor files (src/src/predict.py, lines 54-56, 142, 155)
PredictionsPath(ticker) == <<"predictions/", ticker, "_predictions.csv">>
PlotPath(ticker) == <<"predictions/", ticker, "_prediction_plot.png">>

\* the columns of the windows ModelPredictor.predict feeds to the model:
\* self.df is raw_data_{ticker}.csv as read, and the windows are slices of
\* self.df.values (lines 54, 59, 67, 77-79, 84-85)
PredictorWindowColumns(st) == st[RawDataPath(Ticker)].columns

\* mutant: a missing scaler file is answered with None
load_scaler_lax(path, st) ==
    IF path \notin DOMAIN st
    THEN [ok |-> TRUE, value |-> <<>>, error |-> "none"]
    ELSE [ok |-> TRUE, value |-> st[path], error |-> "none"]

\* load_scaler, lines 21-30
load_scaler(path, st) ==
    IF path \notin DOMAIN st
    THEN [ok |-> FALSE, value |-> <<>>, error |-> "ScalerFileNotFound"]
    ELSE [ok |-> TRUE, value |-> st[path], error |-> "none"]

\* predict.main, line 163: ModelPredictor(ticker); __init__ lines 53-57
PredictorLoadScaler ==
    /\ pc \in {"tr_done", "tr_raised"}
    /\ LET r == load_scaler(ScalerPath("feature", Ticker), store)
       IN IF r.ok
          THEN /\ predictor' = [predictor EXCEPT !.feature_scaler = r.value]
               /\ pc' = "pr_load_model"
               /\ pipe_error' = "none"
          ELSE /\ Raise(r.error, "pr_raised")
               /\ UNCHANGED predictor
    /\ UNCHANGED <<entry, input_df, frame, fitted, store>>
    /\ UNCHANGED <<call_depth, predictions, inverse>>
    /\ UNCHANGED <<windowVars, trainVars, predictVars, fitVars>>

\* __init__ line 58 and load_model, lines 33-42.  The name load_model is the
\* function itself (its def replaces the imported keras load_model), so line
\* 39 calls load_model again with the same path: one more frame each time,
\* until the interpreter refuses the next frame with RecursionError, which
\* every frame's except clause logs and re-raises
PredictorLoadModel ==
    /\ pc = "pr_load_model"
    /\ IF BestPath(Ticker) \notin DOMAIN store
       THEN Raise("ModelFileNotFound", "pr_raised") /\ call_depth' = 0
       ELSE IF call_depth < RecursionLimit
       THEN /\ call_depth' = call_depth + 1
            /\ UNCHANGED <<pc, pipe_error>>
       ELSE Raise("RecursionError", "pr_raised") /\ call_depth' = 0
    /\ UNCHANGED <<entry, input_df, frame, fitted, store>>
    /\ UNCHANGED <<predictor, predictions, inverse>>
    /\ UNCHANGED <<windowVars, trainVars, predictVars, fitVars>>

NextFeatures ==
    \/ DpDownload
    \/ DpIndicators
    \/ DpFill
    \/ DpCheck
    \/ DpNormalize
    \/ DpSave
    \/ FeRead
    \/ FeIndicators
    \/ FeValidate
    \/ FeClean
    \/ FeNormalizeFeatures
    \/ FeNormalizeClose
    \/ FeSave
    \/ TrainRun
    \/ PredictorLoadScaler
    \/ PredictorLoadModel

SpecFeatures == InitFeatures /\ [][NextFeatures]_vars

Applied(f, c, role) == \E k \in 1..Len(f.applied[c]) : f.applied[c][k] = role

ScalerColumnSet(sc) == {sc.columns[k] : k \in 1..Len(sc.columns)}

\* the raw columns the DataFrame given to the script lacks
MissingRaw == {RawColumns[k] : k \in 1..Len(RawColumns)} \ ColumnSet(input_df)

\* C13: in process_and_save_features the feature scaler and the target scaler
\* are fitted on disjoint column sets: Close is never among the feature
\* scaler's columns, the target scaler is fitted on Close alone, neither
\* transform touches the columns of the other, and the two scalers are
\* persisted under distinct keys (roles feature and close).
C13_ScalersFitOnDisjointColumns ==
    /\ "feature" \in DOMAIN fitted => CLOSE \notin ScalerColumnSet(fitted["feature"])
    /\ "close" \in DOMAIN fitted => fitted["close"].columns = <<CLOSE>>
    /\ {"feature", "close"} \subseteq DOMAIN fitted
          => ScalerColumnSet(fitted["feature"]) \cap ScalerColumnSet(fitted["close"]) = {}
    /\ \A c \in ColumnSet(frame) :
          IF c = CLOSE THEN ~Applied(frame, c, "feature") ELSE ~Applied(frame, c, "close")
    /\ pc = "fe_done"
          => /\ ScalerPath("feature", Ticker) # ScalerPath("close", Ticker)
             /\ store[ScalerPath("feature", Ticker)] = fitted["feature"]
             /\ store[ScalerPath("close", Ticker)] = fitted["close"]

\* witness of C13: both scalers were fitted on several rows and persisted
C13_Witness ==
    /\ pc = "fe_done"
    /\ Cardinality(frame.index) >= 2
    /\ Applied(frame, CLOSE, "close")
    /\ Applied(frame, "Volume", "feature")

\* C15: whenever a script reaches the step that fits a scaler, every row is
\* fully populated and the rows are those of the input (leading undefined
\* indicator values were backward-filled, no row was removed); and a run
\* that still has undefined values after the fill fails before any scaler is
\* fitted or persisted and before any processed output is written.
C15_RowsFilledBeforeScalerFit ==
    /\ pc \in {"dp_normalize", "fe_features"}
          => (~HasNaN(frame) /\ frame.index = input_df.index)
    /\ pipe_error = "IncompleteData"
          => (fitted = <<>> /\ DOMAIN store \subseteq {RawDataPath(Ticker)})

\* the positions of the data scripts after the call of calculate_technical_indicators
AfterIndicators == {"dp_fill", "dp_check", "dp_normalize", "dp_save", "dp_done", "dp_raised",
                    "fe_validate", "fe_clean", "fe_features", "fe_close", "fe_save",
                    "fe_done", "fe_raised"}

\* C18: calculate_technical_indicators fails with a missing-column error
\* whenever Close is absent from its input, before adding any indicator
\* column; process_and_save_features fails before fitting any scaler when any
\* required column is absent.
C18_MissingColumnFailsFirst ==
    /\ (~HasColumn(input_df, CLOSE) /\ pc \in AfterIndicators)
          => /\ pc \in {"dp_raised", "fe_raised"}
             /\ pipe_error = "MissingColumn"
             /\ frame = input_df
    /\ (MissingRaw # {} /\ pc \in AfterIndicators \ {"fe_validate"})
          => /\ pc \in {"dp_raised", "fe_raised"}
             /\ pipe_error = "MissingColumn"
             /\ fitted = <<>>
             /\ DOMAIN store = {ProcessedDataPath(Ticker)}

\* witness of C18: the indicators were added and the validation found a
\* required column (Volume) absent
C18_Witness ==
    /\ pc = "fe_raised"
    /\ pipe_error = "MissingColumn"
    /\ ~HasColumn(input_df, "Volume")
    /\ HasColumn(frame, "MACD")
    /\ Cardinality(input_df.index) >= 2

\* the positions of the prediction script once load_scaler has been called
PredictorStarted == pc \in {"pr_load_model", "pr_raised"}

C16_MissingArtifactFailsConstruction ==
    /\ (PredictorStarted /\ ScalerPath("feature", Ticker) \notin DOMAIN store)
          => /\ pc = "pr_raised"
             /\ pipe_error = "ScalerFileNotFound"
             /\ predictor = NoPredictor
    /\ (pc = "pr_raised" /\ ScalerPath("feature", Ticker) \in DOMAIN store
                         /\ BestPath(Ticker) \notin DOMAIN store)
          => /\ pipe_error = "ModelFileNotFound"
             /\ predictor.model = <<>>
             /\ call_depth = 0
    /\ (PredictorStarted /\ (ScalerPath("feature", Ticker) \notin DOMAIN store
                             \/ BestPath(Ticker) \notin DOMAIN store))
          => /\ predictions = <<>>
             /\ inverse = <<>>
             /\ PredictionsPath(Ticker) \notin DOMAIN store
             /\ PlotPath(Ticker) \notin DOMAIN store

\* witness of C16: the feature script failed, no scaler was persisted, and
\* the construction of the predictor raised
C16_Witness ==
    /\ pc = "pr_raised"
    /\ pipe_error = "ScalerFileNotFound"
    /\ ScalerPath("feature", Ticker) \notin DOMAIN store
    /\ ProcessedDataPath(Ticker) \in DOMAIN store

\* C21: for every path at which a model artifact exists, load_model(path)
\* of the prediction script never calls itself, and ends by returning the
\* loaded model or raising a load error, never by exhausting the call stack.
C21_LoadModelNeverCallsItself ==
    (PredictorStarted /\ BestPath(Ticker) \in DOMAIN store)
        => /\ call_depth = 0
           /\ pipe_error # "RecursionError"

(***************************************************************************)
(* SpecInverse: one call inverse_transform_predictions(predictions) of a   *)
(* ModelPredictor (src/src/predict.py) whose df has its columns in any     *)
(* order and whose feature_scaler was fitted column by column, either on   *)
(* the columns of df in their order or on the columns other than Close.    *)
(***************************************************************************)
\* the column orders of self.df: the downloaded columns as they come, and
\* every order of Columns
ColumnOrders ==
    {RawColumns} \cup {o \in [1..NumCols -> Range(Columns)] : Range(o) = Range(Columns)}

\* list.index, 0-based
list_index(list, e) == (CHOOSE i \in 1..Len(list) : list[i] = e /\ \A j \in 1..(i - 1) : list[j] # e) - 1

\* the fitted scalers a predictor may hold for df columns cols: one
\* (data_min, data_max) per fitted column, for as many columns as df has or
\* for one fewer (feature_engineering.normalize_features leaves Close out)
FittedScalers(cols) == [1..Len(cols) -> Scalers] \cup [1..(Len(cols) - 1) -> Scalers]

\* np.hstack([np.zeros((n, width - 1)), predictions]), one row: width - 1
\* zeros, then the prediction
PaddedRow(width, p) == [c \in 1..width |-> IF c = width THEN p ELSE 0]

\* MinMaxScaler.inverse_transform on one row: X -= min_; X /= scale_ with
\* numpy's broadcasting: column by column for equal widths, the single
\* fitted column for all when one was fitted, ValueError otherwise
CanInverse(sc, row) == Len(sc) = Len(row) \/ Len(sc) = 1
inverse_transform(sc, row) ==
    [c \in 1..Len(row) |-> InverseTransform(sc[IF Len(sc) = 1 THEN 1 ELSE c], row[c])]

InitInverse ==
    /\ pc = "inverse"
    /\ \E cols \in ColumnOrders : \E sc \in FittedScalers(cols) :
          predictor = [columns |-> cols, feature_scaler |-> sc, model |-> <<>>]
    /\ predictions \in UNION {[1..n -> ScaledValues] : n \in 0..MaxPredictions}
    /\ inverse = <<>>
    /\ call_depth = 0
    /\ df = <<>> /\ steps = 1 /\ target_index = CloseIndex /\ x = <<>> /\ y = <<>>
    /\ IdleTrain
    /\ IdlePredict
    /\ IdleFit
    /\ IdleFeatures

\* inverse_transform_predictions, lines 88-97.  check_array refuses a matrix
\* of 0 rows
InverseTransformPredictions ==
    /\ pc = "inverse"
    /\ LET scaler_columns == predictor.columns
           close_index == list_index(scaler_columns, CLOSE)
           padded == [k \in 1..Len(predictions) |->
                         PaddedRow(Len(scaler_columns), predictions[k])]
       IN IF Len(predictions) = 0
             \/ \E k \in 1..Len(padded) : ~CanInverse(predictor.feature_scaler, padded[k])
          THEN /\ pc' = "inverse_raised"
               /\ pipe_error' = "ValueError"
               /\ UNCHANGED inverse
          ELSE /\ inverse' = [k \in 1..Len(padded) |->
                                 inverse_transform(predictor.feature_scaler,
                                                   padded[k])[close_index + 1]]
               /\ pc' = "inverse_returned"
               /\ UNCHANGED pipe_error
    /\ UNCHANGED <<entry, input_df, frame, fitted, store>>
    /\ UNCHANGED <<predictor, call_depth, predictions>>
    /\ UNCHANGED <<windowVars, trainVars, predictVars, fitVars>>

NextInverse ==
    \/ InverseTransformPredictions

SpecInverse == InitInverse /\ [][NextInverse]_vars

\* C11: whatever the position of Close in the column order, every value
\* inverse_transform_predictions returns is the scaled prediction mapped
\* back through the fitted min/max of the Close column.
C11_InverseMapsPredictionThroughClose ==
    pc = "inverse_returned" =>
        LET close_index == list_index(predictor.columns, CLOSE)
        IN /\ Len(inverse) = Len(predictions)
           /\ Len(predictor.feature_scaler) = Len(predictor.columns)
           /\ \A k \in 1..Len(predictions) :
                 inverse[k] = InverseTransform(predictor.feature_scaler[close_index + 1],
                                               predictions[k])

====
